---- MODULE Spec2Model ----
(***************************************************************************)
(* The limit order book of Tzadiko/Orderbook: the Orderbook class with its *)
(* two price ladders (bids_, asks_), the order index (orders_), the level  *)
(* aggregates (data_), the public operations AddOrder, CancelOrder,        *)
(* ModifyOrder, Size and GetOrderInfos, the thread that prunes GoodForDay   *)
(* orders, and the destructor. Spec and HarnessSpec have one caller that    *)
(* makes one call at a time; CallersSpec, ReadersSpec and ShutdownSpec have *)
(* the threads of the program, which take their steps one critical section *)
(* at a time.                                                               *)
(***************************************************************************)
EXTENDS Integers, Sequences, FiniteSets, TLC

\* Bounds of the explored inputs.
MaxPrice == 2
MaxQuantity == 2
MaxOrderId == 3
\* How far below zero (modulo 2^32) a level aggregate may drift before the
\* caller stops submitting: the drift is unbounded in the program.
MaxWrap == 2
\* How many orders the caller leaves resting at once.
MaxResting == 2

\* std::uint32_t Quantity: values are kept as the two's complement
\* representative of their residue modulo 2^32 (0xFFFFFFFF is -1).
MaxInt32 == 2147483647

Prices == 1..MaxPrice
Quantities == 1..MaxQuantity
OrderIds == 1..MaxOrderId
OrderType == {"GoodTillCancel", "FillAndKill", "FillOrKill", "GoodForDay", "Market"}
Side == {"Buy", "Sell"}
\* The order types the caller submits
CallerTypes == {"GoodTillCancel", "FillAndKill", "FillOrKill"}

VARIABLES
    bids,      \* bids_: price -> queue of orders (by id), best = highest price
    asks,      \* asks_: price -> queue of orders (by id), best = lowest price
    orders,    \* orders_: order id -> the Order object it points to
    data,      \* data_: price -> LevelData
    last,      \* the last call of the caller and how it ended
    seen,      \* what the last Size or GetOrderInfos call returned
    mutex,     \* ordersMutex_: the thread that owns it, or "free"
    pc,        \* where each thread is
    orderIds,  \* orderIds of PruneGoodForDayOrders: the ids it is to cancel
    signal     \* whether ~Orderbook has called notify_one

vars == <<bids, asks, orders, data, last, seen, mutex, pc, orderIds, signal>>

\* What belongs to the threads, which a caller alone leaves as it is
threads == <<mutex, pc, orderIds, signal>>

----------------------------------------------------------------------------
\* Helpers for maps and 32-bit unsigned arithmetic

Erase(f, k) == [x \in DOMAIN f \ {k} |-> f[x]]
Put(f, k, v) == [x \in DOMAIN f \cup {k} |-> IF x = k THEN v ELSE f[x]]
SetMax(S) == CHOOSE x \in S : \A y \in S : y <= x
SetMin(S) == CHOOSE x \in S : \A y \in S : x <= y
Min(a, b) == IF a <= b THEN a ELSE b

\* a + b modulo 2^32 on representatives, without leaving the 32-bit range
U32Add(a, b) ==
    IF a >= 0 /\ b >= 0 /\ a > MaxInt32 - b
    THEN (a - MaxInt32 - 1) + (b - MaxInt32 - 1)
    ELSE IF a < 0 /\ b < 0 /\ a < (-MaxInt32 - 1) - b
    THEN (a + MaxInt32 + 1) + (b + MaxInt32 + 1)
    ELSE a + b
U32Neg(a) == IF a = -MaxInt32 - 1 THEN a ELSE -a
U32Sub(a, b) == U32Add(a, U32Neg(b))
\* unsigned a <= b: a negative representative is a value >= 2^31
U32Le(a, b) == IF (a >= 0) = (b >= 0) THEN a <= b ELSE a >= 0

----------------------------------------------------------------------------
\* Order

Order(orderType, orderId, side, price, quantity) ==
    [orderType |-> orderType, orderId |-> orderId, side |-> side, price |-> price,
     initialQuantity |-> quantity, remainingQuantity |-> quantity]

IsFilled(order) == order.remainingQuantity = 0
FillThrows(order, quantity) == quantity > order.remainingQuantity
Fill(order, quantity) == [order EXCEPT !.remainingQuantity = @ - quantity]

ToOrderPointer(modify, type) ==
    Order(type, modify.orderId, modify.side, modify.price, modify.quantity)

\* A faulty TradeInfo, which reports the initial quantity of its order
TradeInfoOfInitialQuantity(order, quantity) ==
    [orderId |-> order.orderId, price |-> order.price, quantity |-> order.initialQuantity]

TradeInfo(order, quantity) ==
    [orderId |-> order.orderId, price |-> order.price, quantity |-> quantity]
\* A faulty Trade, which reports both halves at the price of the ask
TradeAtAskPrice(bidTrade, askTrade) ==
    [bidTrade |-> [bidTrade EXCEPT !.price = askTrade.price], askTrade |-> askTrade]

Trade(bidTrade, askTrade) == [bidTrade |-> bidTrade, askTrade |-> askTrade]

----------------------------------------------------------------------------
\* Orderbook: level aggregates

NoLevelData == [quantity |-> 0, count |-> 0]

UpdateLevelData(d, price, quantity, action) ==
    LET cur == IF price \in DOMAIN d THEN d[price] ELSE NoLevelData
        cnt == U32Add(cur.count,
                      IF action = "Remove" THEN -1 ELSE IF action = "Add" THEN 1 ELSE 0)
        qty == IF action \in {"Remove", "Match"}
               THEN U32Sub(cur.quantity, quantity)
               ELSE U32Add(cur.quantity, quantity)
    IN  IF cnt = 0 THEN Erase(d, price)
        ELSE Put(d, price, [quantity |-> qty, count |-> cnt])

OnOrderCancelled(d, order) ==
    UpdateLevelData(d, order.price, order.remainingQuantity, "Remove")
OnOrderAdded(d, order) ==
    UpdateLevelData(d, order.price, order.initialQuantity, "Add")
OnOrderMatched(d, price, quantity, isFullyFilled) ==
    UpdateLevelData(d, price, quantity, IF isFullyFilled THEN "Remove" ELSE "Match")

----------------------------------------------------------------------------
\* Orderbook: the book as one value, and the viability predicates

Book == [bids |-> bids, asks |-> asks, orders |-> orders, data |-> data]

CanMatch(b, side, price) ==
    IF side = "Buy"
    THEN IF DOMAIN b.asks = {} THEN FALSE ELSE price >= SetMin(DOMAIN b.asks)
    ELSE IF DOMAIN b.bids = {} THEN FALSE ELSE price <= SetMax(DOMAIN b.bids)

\* The orders in which a loop may visit the keys of the unordered_map data_:
\* a ranking of all prices, of which the loop sees the keys present.
HashOrders ==
    {s \in [1..MaxPrice -> Prices] : \A i, j \in 1..MaxPrice : i # j => s[i] # s[j]}
IterationOrder(d, hash) == SelectSeq(hash, LAMBDA p : p \in DOMAIN d)

\* The loop of CanFullyFill over data_, visited in the order iter
RECURSIVE FullyFillLoop(_, _, _, _, _, _)
FullyFillLoop(d, iter, side, price, threshold, quantity) ==
    IF iter = <<>> THEN FALSE
    ELSE LET levelPrice == Head(iter)
             levelData == d[levelPrice]
         IN  IF (TRUE /\ (side = "Buy" /\ threshold > levelPrice))
                \/ (side = "Sell" /\ threshold < levelPrice)
             THEN FullyFillLoop(d, Tail(iter), side, price, threshold, quantity)
             ELSE IF (side = "Buy" /\ levelPrice > price) \/ (side = "Sell" /\ levelPrice < price)
             THEN FullyFillLoop(d, Tail(iter), side, price, threshold, quantity)
             ELSE IF U32Le(quantity, levelData.quantity) THEN TRUE
             ELSE FullyFillLoop(d, Tail(iter), side, price, threshold,
                                U32Sub(quantity, levelData.quantity))

CanFullyFill(b, side, price, quantity, hash) ==
    IF ~CanMatch(b, side, price) THEN FALSE
    ELSE LET threshold == IF side = "Buy" THEN SetMin(DOMAIN b.asks)
                          ELSE SetMax(DOMAIN b.bids)
         IN  FullyFillLoop(b.data, IterationOrder(b.data, hash), side, price, threshold,
                           quantity)

----------------------------------------------------------------------------
\* Orderbook: cancel

\* The result of an internal step: the book, the trades made, how the step ended
\* ("returned", or the exception or hang that ended it), and whether it read
\* through a reference to an object it had already destroyed.
Result(b, trades, outcome, dangling) ==
    [book |-> b, trades |-> trades, outcome |-> outcome, dangling |-> dangling]

\* The result r of a step that came after a read of a destroyed object, or not
Dangling(r, before) == Result(r.book, r.trades, r.outcome, r.dangling \/ before)

RemoveAt(queue, orderId) == SelectSeq(queue, LAMBDA x : x # orderId)

\* A faulty CancelOrderInternal, which forgets orders_.erase(orderId): the
\* cancelled order stays in the index, so that a second cancel finds it again.
CancelOrderInternalKeepingIndex(b, orderId) ==
    IF orderId \notin DOMAIN b.orders THEN Result(b, <<>>, "returned", FALSE)
    ELSE LET order == b.orders[orderId]
             price == order.price
             ladder == IF order.side = "Sell" THEN b.asks ELSE b.bids
             queue == IF price \in DOMAIN ladder THEN RemoveAt(ladder[price], orderId)
                      ELSE <<>>
             ladder1 == IF queue = <<>> THEN Erase(ladder, price)
                        ELSE Put(ladder, price, queue)
         IN  Result([bids |-> IF order.side = "Sell" THEN b.bids ELSE ladder1,
                     asks |-> IF order.side = "Sell" THEN ladder1 ELSE b.asks,
                     orders |-> b.orders,
                     data |-> OnOrderCancelled(b.data, order)],
                    <<>>, "returned", FALSE)

\* A faulty CancelOrderInternal, which forgets orders.erase(iterator): the
\* cancelled order leaves the index and stays queued in its level.
CancelOrderInternalKeepingQueue(b, orderId) ==
    IF orderId \notin DOMAIN b.orders THEN Result(b, <<>>, "returned", FALSE)
    ELSE Result([bids |-> b.bids, asks |-> b.asks,
                 orders |-> Erase(b.orders, orderId),
                 data |-> OnOrderCancelled(b.data, b.orders[orderId])],
                <<>>, "returned", TRUE)

\* A faulty CancelOrderInternal, which forgets to erase the level it has emptied
CancelOrderInternalKeepingLevel(b, orderId) ==
    IF orderId \notin DOMAIN b.orders THEN Result(b, <<>>, "returned", FALSE)
    ELSE LET order == b.orders[orderId]
             price == order.price
         IN  Result([bids |-> IF order.side = "Sell" THEN b.bids
                              ELSE Put(b.bids, price, RemoveAt(b.bids[price], orderId)),
                     asks |-> IF order.side # "Sell" THEN b.asks
                              ELSE Put(b.asks, price, RemoveAt(b.asks[price], orderId)),
                     orders |-> Erase(b.orders, orderId),
                     data |-> OnOrderCancelled(b.data, order)],
                    <<>>, "returned", TRUE)

\* order and iterator are references into the index entry erased on the next
\* line: every later use of them reads the destroyed entry (dangling).
CancelOrderInternal(b, orderId) ==
    IF orderId \notin DOMAIN b.orders THEN Result(b, <<>>, "returned", FALSE)
    ELSE LET order == b.orders[orderId]
             price == order.price
             orders1 == Erase(b.orders, orderId)
             asksQ == RemoveAt(b.asks[price], orderId)
             bidsQ == RemoveAt(b.bids[price], orderId)
             asks1 == IF order.side # "Sell" THEN b.asks
                      ELSE IF asksQ = <<>> THEN Erase(b.asks, price)
                      ELSE Put(b.asks, price, asksQ)
             bids1 == IF order.side = "Sell" THEN b.bids
                      ELSE IF bidsQ = <<>> THEN Erase(b.bids, price)
                      ELSE Put(b.bids, price, bidsQ)
         IN  Result([bids |-> bids1, asks |-> asks1, orders |-> orders1,
                     data |-> OnOrderCancelled(b.data, order)],
                    <<>>, "returned", TRUE)

----------------------------------------------------------------------------
\* Orderbook: matching

\* One pass of the inner loop of MatchOrders on the levels bidPrice, askPrice,
\* statement by statement. m is the book with the trades made so far.

\* A faulty step, which forgets orders_.erase(id) of a filled order
RefiledKeepingFilled(index, order) == Put(index, order.orderId, order)

\* orders_.erase(id) of a filled order; an order not filled stays, as filled so far
Refiled(index, order) ==
    IF IsFilled(order) THEN Erase(index, order.orderId)
    ELSE Put(index, order.orderId, order)

\* bids.pop_front() / asks.pop_front() of a filled order
Popped(queue, order) == IF IsFilled(order) THEN Tail(queue) ELSE queue

\* bids_.erase(bidPrice) / asks_.erase(askPrice) of an emptied level
Relevelled(ladder, price, queue) ==
    IF queue = <<>> THEN Erase(ladder, price) ELSE Put(ladder, price, queue)

\* data_.erase(bidPrice) / data_.erase(askPrice) with an emptied level
Forgotten(d, price, queue) == IF queue = <<>> THEN Erase(d, price) ELSE d

\* From the pops on: bid and ask are the two orders as filled, bidsQ and asksQ
\* their queues after the pops
Settle(m, bidPrice, askPrice, bid, ask, quantity, bidsQ, asksQ) ==
    [bids |-> Relevelled(m.bids, bidPrice, bidsQ),
     asks |-> Relevelled(m.asks, askPrice, asksQ),
     orders |-> Refiled(Refiled(m.orders, bid), ask),
     data |-> OnOrderMatched(
                  OnOrderMatched(
                      Forgotten(Forgotten(m.data, bidPrice, bidsQ), askPrice, asksQ),
                      bid.price, quantity, IsFilled(bid)),
                  ask.price, quantity, IsFilled(ask)),
     trades |-> Append(m.trades,
                       Trade(TradeInfo(bid, quantity), TradeInfo(ask, quantity))),
     dangling |-> m.dangling,
     error |-> FALSE]

\* bid->Fill(quantity); ask->Fill(quantity); and the rest of the pass
FillBoth(m, bidPrice, askPrice, bid, ask, quantity) ==
    IF FillThrows(bid, quantity) THEN [m EXCEPT !.error = TRUE]
    ELSE IF FillThrows(ask, quantity)
    THEN [m EXCEPT !.orders = Put(m.orders, bid.orderId, Fill(bid, quantity)),
                   !.error = TRUE]
    ELSE Settle(m, bidPrice, askPrice, Fill(bid, quantity), Fill(ask, quantity), quantity,
                Popped(m.bids[bidPrice], Fill(bid, quantity)),
                Popped(m.asks[askPrice], Fill(ask, quantity)))

\* A faulty quantity, which is what remains of the bid whatever remains of the ask
MatchFrontsAtBidQuantity(m, bidPrice, askPrice, bid, ask) ==
    FillBoth(m, bidPrice, askPrice, bid, ask, bid.remainingQuantity)

\* quantity = std::min(bid->GetRemainingQuantity(), ask->GetRemainingQuantity())
MatchFronts(m, bidPrice, askPrice, bid, ask) ==
    FillBoth(m, bidPrice, askPrice, bid, ask,
             Min(bid.remainingQuantity, ask.remainingQuantity))

\* bid = bids.front(); ask = asks.front();
MatchStep(m, bidPrice, askPrice) ==
    MatchFronts(m, bidPrice, askPrice, m.orders[Head(m.bids[bidPrice])],
                m.orders[Head(m.asks[askPrice])])

\* while (bids.size() && asks.size()): bids and asks are references to the two
\* level queues; once a pass has erased a level from its ladder the test reads
\* the destroyed queue (dangling), whose size was 0 when it was destroyed.
RECURSIVE MatchLevel(_, _, _)
MatchLevel(m, bidPrice, askPrice) ==
    IF m.error THEN m
    ELSE IF bidPrice \notin DOMAIN m.bids \/ askPrice \notin DOMAIN m.asks
    THEN [m EXCEPT !.dangling = TRUE]
    ELSE MatchLevel(MatchStep(m, bidPrice, askPrice), bidPrice, askPrice)

\* A faulty break test, which leaves equal prices unmatched
StopsMatchingOnEqual(bidPrice, askPrice) == bidPrice <= askPrice

\* if (bidPrice < askPrice) break;
StopsMatching(bidPrice, askPrice) == bidPrice < askPrice

\* while (true) of MatchOrders
RECURSIVE MatchLoop(_)
MatchLoop(m) ==
    IF m.error THEN m
    ELSE IF DOMAIN m.bids = {} \/ DOMAIN m.asks = {} THEN m
    ELSE LET bidPrice == SetMax(DOMAIN m.bids)
             askPrice == SetMin(DOMAIN m.asks)
         IN  IF StopsMatching(bidPrice, askPrice) THEN m
             ELSE MatchLoop(MatchLevel(m, bidPrice, askPrice))

\* What locking ordersMutex_ (a std::mutex) does on the thread that already
\* owns it, which is undefined: the lock throws std::system_error, the thread
\* blocks for ever, or the lock is granted again.
RelockOutcomes == {"system_error", "blocked", "reacquired"}

\* The result r of the matching, after the cancel with result c
Cancelled(r, c) == Result(c.book, r.trades, "returned", r.dangling \/ c.dangling)

\* CancelOrder(orderId) called from MatchOrders, inside AddOrder's critical section
CancelOrderRelocking(r, orderId, relock) ==
    IF relock = "reacquired"
    THEN Cancelled(r, CancelOrderInternal(r.book, orderId))
    ELSE Result(r.book, r.trades, relock, r.dangling)

FrontIsFillAndKill(b, ladder, best) ==
    b.orders[Head(ladder[best])].orderType = "FillAndKill"

\* What the loops leave, as the result of a step
Matched(m) ==
    Result([bids |-> m.bids, asks |-> m.asks, orders |-> m.orders, data |-> m.data],
           m.trades, IF m.error THEN "logic_error" ELSE "returned", m.dangling)

\* if (!bids_.empty()) { ... CancelOrder(order->GetOrderId()); }
CancelFrontBid(r, relock) ==
    IF r.outcome = "returned" /\ DOMAIN r.book.bids # {}
       /\ FrontIsFillAndKill(r.book, r.book.bids, SetMax(DOMAIN r.book.bids))
    THEN CancelOrderRelocking(r, Head(r.book.bids[SetMax(DOMAIN r.book.bids)]), relock)
    ELSE r

\* if (!asks_.empty()) { ... CancelOrder(order->GetOrderId()); }
CancelFrontAsk(r, relock) ==
    IF r.outcome = "returned" /\ DOMAIN r.book.asks # {}
       /\ FrontIsFillAndKill(r.book, r.book.asks, SetMin(DOMAIN r.book.asks))
    THEN CancelOrderRelocking(r, Head(r.book.asks[SetMin(DOMAIN r.book.asks)]), relock)
    ELSE r

\* MatchOrders up to the end of its loops
MatchLoops(b) ==
    Matched(MatchLoop([bids |-> b.bids, asks |-> b.asks, orders |-> b.orders,
                       data |-> b.data, trades |-> <<>>, dangling |-> FALSE,
                       error |-> FALSE]))

\* Whether MatchOrders, its loops done, finds a FillAndKill order to cancel
CancelsAFront(b) ==
    \/ DOMAIN b.bids # {} /\ FrontIsFillAndKill(b, b.bids, SetMax(DOMAIN b.bids))
    \/ DOMAIN b.asks # {} /\ FrontIsFillAndKill(b, b.asks, SetMin(DOMAIN b.asks))

\* MatchOrders from the end of its loops, with result r, to its return
CancelFronts(r, relock) == CancelFrontAsk(CancelFrontBid(r, relock), relock)

MatchOrders(b, relock) == CancelFronts(MatchLoops(b), relock)

----------------------------------------------------------------------------
\* Orderbook: the public operations

\* Faulty early returns: without the test of a duplicate id, and without the
\* tests of FillAndKill and FillOrKill orders
RejectsWithoutDuplicateTest(b, order, hash) ==
    \/ order.orderType = "FillAndKill" /\ ~CanMatch(b, order.side, order.price)
    \/ order.orderType = "FillOrKill"
       /\ ~CanFullyFill(b, order.side, order.price, order.initialQuantity, hash)
RejectsWithoutFillTests(b, order, hash) == order.orderId \in DOMAIN b.orders

\* The three early returns of AddOrder
Rejects(b, order, hash) ==
    \/ order.orderId \in DOMAIN b.orders
    \/ order.orderType = "FillAndKill" /\ ~CanMatch(b, order.side, order.price)
    \/ order.orderType = "FillOrKill"
       /\ ~CanFullyFill(b, order.side, order.price, order.initialQuantity, hash)

\* A faulty insertion, at the head of the level
PushFront(queue, orderId) == <<orderId>> \o queue

\* orders.push_back(order)
PushBack(queue, orderId) == Append(queue, orderId)

\* The insertion of AddOrder: into the ladder of the order's side (the level is
\* created when absent), into the index and into the level aggregates
Insert(b, order) ==
    LET queue == IF order.side = "Buy"
                 THEN IF order.price \in DOMAIN b.bids THEN b.bids[order.price] ELSE <<>>
                 ELSE IF order.price \in DOMAIN b.asks THEN b.asks[order.price] ELSE <<>>
    IN  [bids |-> IF order.side = "Buy"
                  THEN Put(b.bids, order.price, PushBack(queue, order.orderId))
                  ELSE b.bids,
         asks |-> IF order.side = "Buy" THEN b.asks
                  ELSE Put(b.asks, order.price, PushBack(queue, order.orderId)),
         orders |-> Put(b.orders, order.orderId, order),
         data |-> OnOrderAdded(b.data, order)]

AddOrder(b, order, hash, relock) ==
    IF Rejects(b, order, hash) THEN Result(b, <<>>, "returned", FALSE)
    ELSE MatchOrders(Insert(b, order), relock)

CancelOrder(b, orderId) == CancelOrderInternal(b, orderId)

\* CancelOrder(order.GetOrderId()); return AddOrder(order.ToOrderPointer(orderType));
\* cancelled is the result of the cancel
AddCancelled(cancelled, order, hash, relock) ==
    Dangling(AddOrder(cancelled.book, order, hash, relock), cancelled.dangling)

\* A faulty ModifyOrder, which adds the order when the id is not in the index
ModifyOrderAddingWhenAbsent(b, modify, hash, relock) ==
    IF modify.orderId \notin DOMAIN b.orders
    THEN AddOrder(b, ToOrderPointer(modify, "GoodTillCancel"), hash, relock)
    ELSE AddCancelled(CancelOrder(b, modify.orderId),
                      ToOrderPointer(modify, b.orders[modify.orderId].orderType),
                      hash, relock)

\* A faulty ModifyOrder, which forgets CancelOrder: the re-add finds its own id
ModifyOrderWithoutCancel(b, modify, hash, relock) ==
    IF modify.orderId \notin DOMAIN b.orders THEN Result(b, <<>>, "returned", FALSE)
    ELSE AddOrder(b, ToOrderPointer(modify, b.orders[modify.orderId].orderType),
                  hash, relock)

\* A faulty ModifyOrder, which rewrites the order where it is queued when its
\* side and price stay
ModifyOrderInPlace(b, modify, hash, relock) ==
    IF modify.orderId \notin DOMAIN b.orders THEN Result(b, <<>>, "returned", FALSE)
    ELSE IF b.orders[modify.orderId].side = modify.side
            /\ b.orders[modify.orderId].price = modify.price
    THEN Result([b EXCEPT !.orders =
                     Put(b.orders, modify.orderId,
                         ToOrderPointer(modify, b.orders[modify.orderId].orderType))],
                <<>>, "returned", FALSE)
    ELSE AddCancelled(CancelOrder(b, modify.orderId),
                      ToOrderPointer(modify, b.orders[modify.orderId].orderType),
                      hash, relock)

\* modify: [orderId, side, price, quantity], an OrderModify
ModifyOrder(b, modify, hash, relock) ==
    IF modify.orderId \notin DOMAIN b.orders THEN Result(b, <<>>, "returned", FALSE)
    ELSE AddCancelled(CancelOrder(b, modify.orderId),
                      ToOrderPointer(modify, b.orders[modify.orderId].orderType),
                      hash, relock)

Size(b) == Cardinality(DOMAIN b.orders)

\* std::accumulate over the orders of a level, in Quantity
RECURSIVE Accumulate(_, _, _)
Accumulate(b, queue, runningSum) ==
    IF queue = <<>> THEN runningSum
    ELSE Accumulate(b, Tail(queue),
                    U32Add(runningSum, b.orders[Head(queue)].remainingQuantity))

CreateLevelInfos(b, price, queue) ==
    [price |-> price, quantity |-> Accumulate(b, queue, 0)]

\* A faulty loop over bids_, from the lowest price up
RECURSIVE BidInfosAscending(_, _)
BidInfosAscending(b, levels) ==
    IF levels = {} THEN <<>>
    ELSE <<CreateLevelInfos(b, SetMin(levels), b.bids[SetMin(levels)])>>
             \o BidInfosAscending(b, levels \ {SetMin(levels)})

\* for (const auto& [price, orders] : bids_): bids_ is ordered by std::greater
RECURSIVE BidInfos(_, _)
BidInfos(b, levels) ==
    IF levels = {} THEN <<>>
    ELSE <<CreateLevelInfos(b, SetMax(levels), b.bids[SetMax(levels)])>>
             \o BidInfos(b, levels \ {SetMax(levels)})

\* for (const auto& [price, orders] : asks_): asks_ is ordered by std::less
RECURSIVE AskInfos(_, _)
AskInfos(b, levels) ==
    IF levels = {} THEN <<>>
    ELSE <<CreateLevelInfos(b, SetMin(levels), b.asks[SetMin(levels)])>>
             \o AskInfos(b, levels \ {SetMin(levels)})

GetOrderInfos(b) ==
    [bids |-> BidInfos(b, DOMAIN b.bids), asks |-> AskInfos(b, DOMAIN b.asks)]

----------------------------------------------------------------------------
\* The caller: one call at a time on an Orderbook

\* last: the call (op and arguments; orderType is the type submitted, or for
\* ModifyOrder the type read from the index), whether its order id was in the
\* index when it began (found), whether it passed the early returns
\* (admitted), how it ended (outcome) and the trades it returned.
NoCall ==
    [op |-> "none", orderId |-> 0, orderType |-> "-", side |-> "-", price |-> 0,
     quantity |-> 0, found |-> FALSE, admitted |-> FALSE, outcome |-> "returned",
     trades |-> <<>>]

NoBook == [bids |-> <<>>, asks |-> <<>>, orders |-> <<>>, data |-> <<>>]

\* seen: the read (op) and what it returned
NoInfos == [op |-> "none", size |-> 0, bids |-> <<>>, asks |-> <<>>]

\* The threads: the one that calls the public operations and destroys the
\* Orderbook, another that adds and cancels orders, one that reads the book,
\* and ordersPruneThread_
Threads == {"caller", "other", "reader", "pruner"}

\* The Orderbook as constructed: empty, with ordersPruneThread_ started
Init ==
    /\ bids = <<>>
    /\ asks = <<>>
    /\ orders = <<>>
    /\ data = <<>>
    /\ last = NoCall
    /\ seen = NoInfos
    /\ mutex = "free"
    /\ pc = [t \in Threads |-> IF t = "pruner" THEN "compute" ELSE "idle"]
    /\ orderIds = {}
    /\ signal = FALSE

\* The caller makes one call at a time: it makes the next one when it has
\* taken what the last one returned or threw.
Running == last = NoCall

InBounds(b) ==
    /\ Cardinality(DOMAIN b.orders) <= MaxResting
    /\ \A p \in DOMAIN b.data :
          b.data[p].quantity >= -(MaxWrap * MaxQuantity) /\ b.data[p].count >= -MaxWrap

SetBook(b) ==
    /\ bids' = b.bids
    /\ asks' = b.asks
    /\ orders' = b.orders
    /\ data' = b.data

\* How a call with result r ends for the caller. A read through a dangling
\* reference is undefined: either it yields what the destroyed object last
\* held, and the call goes on to r, or the process faults there, and the
\* Orderbook is gone with it.
CallEnds(call, r) ==
    \/ /\ SetBook(r.book)
       /\ last' = [call EXCEPT !.outcome = r.outcome,
                               !.trades = IF r.outcome = "returned" THEN r.trades ELSE <<>>]
       /\ UNCHANGED <<seen, threads>>
    \/ /\ r.dangling
       /\ SetBook(NoBook)
       /\ last' = [call EXCEPT !.outcome = "fault"]
       /\ UNCHANGED <<seen, threads>>

\* The undefined choices a call can meet: the visiting order of data_ is read
\* for FillOrKill orders alone, and ordersMutex_ is locked again only to cancel
\* a FillAndKill order (the one submitted or one left resting).
HashChoices(orderType) ==
    IF orderType = "FillOrKill" /\ Cardinality(DOMAIN data) > 1 THEN HashOrders
    ELSE {[i \in 1..MaxPrice |-> i]}
RelockChoices(orderType) ==
    IF orderType = "FillAndKill"
       \/ \E id \in DOMAIN orders : orders[id].orderType = "FillAndKill"
    THEN RelockOutcomes ELSE {"reacquired"}
\* relock is a choice only in a call that locks again: a call that does not
\* is one call, whatever the lock would have done.
Relocked(r, relock) == relock = "reacquired" \/ r.outcome = relock
TypeOf(orderId) == IF orderId \in DOMAIN orders THEN orders[orderId].orderType ELSE "-"

\* A call of AddOrder with an order of this type and price
AddOrderOf(orderType, price) ==
    /\ Running
    /\ \E orderId \in OrderIds, side \in Side, quantity \in Quantities :
       \E hash \in HashChoices(orderType), relock \in RelockChoices(orderType) :
       \E order \in {Order(orderType, orderId, side, price, quantity)} :
       \E r \in {AddOrder(Book, order, hash, relock)} :
          /\ Relocked(r, relock)
          /\ InBounds(r.book)
          /\ CallEnds([NoCall EXCEPT !.op = "AddOrder", !.orderId = orderId,
                                     !.orderType = orderType, !.side = side,
                                     !.price = price, !.quantity = quantity,
                                     !.found = orderId \in DOMAIN orders,
                                     !.admitted = ~Rejects(Book, order, hash)], r)

AddOrderCall == \E orderType \in CallerTypes, price \in Prices : AddOrderOf(orderType, price)

CancelOrderCall ==
    /\ Running
    /\ \E orderId \in OrderIds :
       \E r \in {CancelOrder(Book, orderId)} :
          /\ InBounds(r.book)
          /\ CallEnds([NoCall EXCEPT !.op = "CancelOrder", !.orderId = orderId,
                                     !.found = orderId \in DOMAIN orders], r)

ModifyOrderCall ==
    /\ Running
    /\ \E orderId \in OrderIds, side \in Side, price \in Prices,
          quantity \in Quantities :
       \E hash \in HashChoices(TypeOf(orderId)), relock \in RelockChoices(TypeOf(orderId)) :
       \E modify \in {[orderId |-> orderId, side |-> side, price |-> price,
                       quantity |-> quantity]} :
       \E r \in {ModifyOrder(Book, modify, hash, relock)} :
          /\ Relocked(r, relock)
          /\ InBounds(r.book)
          /\ CallEnds([NoCall EXCEPT !.op = "ModifyOrder", !.orderId = orderId,
                                     !.orderType = TypeOf(orderId), !.side = side,
                                     !.price = price, !.quantity = quantity,
                                     !.found = orderId \in DOMAIN orders,
                                     !.admitted =
                                         /\ orderId \in DOMAIN orders
                                         /\ ~Rejects(CancelOrder(Book, orderId).book,
                                                     ToOrderPointer(modify, TypeOf(orderId)),
                                                     hash)], r)

\* The caller takes the trades returned, or catches the exception thrown. A
\* call that never returned ("blocked") or that ended the process ("fault")
\* leaves nothing to take.
TakeResult ==
    /\ last.op # "none"
    /\ last.outcome \in {"returned", "system_error", "logic_error"}
    /\ last' = NoCall
    /\ seen' = NoInfos
    /\ UNCHANGED <<bids, asks, orders, data, threads>>

Next == AddOrderCall \/ CancelOrderCall \/ ModifyOrderCall \/ TakeResult

Spec == Init /\ [][Next]_vars

----------------------------------------------------------------------------
\* The test harness: one caller, which adds GoodTillCancel and Market orders
\* (the price of a line of its input may be 0), cancels, and reads the book
\* with GetOrderInfos and Size

HarnessPrices == 0..(MaxPrice - 1)
HarnessOrders == {"GoodTillCancel", "Market"} \X HarnessPrices

AddHarnessOrderCall == \E o \in HarnessOrders : AddOrderOf(o[1], o[2])

GetOrderInfosCall ==
    /\ Running
    /\ last' = [NoCall EXCEPT !.op = "GetOrderInfos"]
    /\ seen' = [NoInfos EXCEPT !.op = "GetOrderInfos",
                               !.bids = GetOrderInfos(Book).bids,
                               !.asks = GetOrderInfos(Book).asks]
    /\ UNCHANGED <<bids, asks, orders, data, threads>>

SizeCall ==
    /\ Running
    /\ last' = [NoCall EXCEPT !.op = "Size"]
    /\ seen' = [NoInfos EXCEPT !.op = "Size", !.size = Size(Book)]
    /\ UNCHANGED <<bids, asks, orders, data, threads>>

HarnessNext ==
    \/ AddHarnessOrderCall
    \/ CancelOrderCall
    \/ GetOrderInfosCall
    \/ SizeCall
    \/ TakeResult

HarnessSpec == Init /\ [][HarnessNext]_vars

----------------------------------------------------------------------------
\* The threads of the program. A thread takes one step for each critical
\* section of ordersMutex_ it runs; AddOrder takes a step up to its insertion,
\* one for the loops of MatchOrders and one where MatchOrders calls
\* CancelOrder, and GetOrderInfos, which locks nothing, a step for each ladder.

ThreadTypes == {"GoodTillCancel", "FillAndKill", "GoodForDay"}
ThreadIds == 1..(MaxOrderId - 1)
ThreadPrices == 1..(MaxPrice - 1)
ThreadOrders ==
    {Order(t, id, s, p, q) : t \in ThreadTypes, id \in ThreadIds, s \in Side,
                             p \in ThreadPrices, q \in Quantities}
ThreadModifications ==
    [orderId : ThreadIds, side : Side, price : ThreadPrices, quantity : Quantities]

At(t, where) == pc[t] = where
Goes(t, where) == pc' = [pc EXCEPT ![t] = where]

\* A read through a dangling reference, or a read of what another thread is
\* writing, may end the process: no thread takes another step
Faults ==
    /\ SetBook(NoBook)
    /\ pc' = [t \in Threads |-> "fault"]
    /\ mutex' = "free"
    /\ orderIds' = {}
    /\ seen' = NoInfos
    /\ last' = [NoCall EXCEPT !.outcome = "fault"]
    /\ UNCHANGED signal

\* What the caller keeps of a call that has ended: the threads' caller drops
\* the trades returned, as the harness does
Ended(op, outcome) == [NoCall EXCEPT !.op = op, !.outcome = outcome]

\* AddOrder from its lock to its insertion: call is the call it is part of
Admits(call, order) ==
    /\ mutex = "free"
    /\ \E hash \in HashChoices(order.orderType) :
          IF Rejects(Book, order, hash)
          THEN /\ last' = Ended(call.op, "returned")
               /\ Goes("caller", "idle")
               /\ UNCHANGED <<bids, asks, orders, data, mutex>>
          ELSE /\ InBounds(MatchOrders(Insert(Book, order), "reacquired").book)
               /\ SetBook(Insert(Book, order))
               /\ last' = [call EXCEPT !.admitted = TRUE, !.outcome = "running"]
               /\ mutex' = "caller"
               /\ Goes("caller", "matching")
    /\ UNCHANGED <<seen, orderIds, signal>>

AddOrderBegins ==
    /\ At("caller", "idle")
    /\ \E order \in ThreadOrders :
          Admits([NoCall EXCEPT !.op = "AddOrder", !.orderId = order.orderId,
                                !.orderType = order.orderType, !.side = order.side,
                                !.price = order.price, !.quantity = order.initialQuantity,
                                !.found = order.orderId \in DOMAIN orders], order)

\* return MatchOrders(): the loops, and the return when there is no
\* FillAndKill order to cancel
AddOrderMatches ==
    /\ At("caller", "matching")
    /\ \E r \in {MatchLoops(Book)} :
          \/ /\ r.outcome = "returned" /\ CancelsAFront(r.book)
             /\ SetBook(r.book)
             /\ Goes("caller", "relock")
             /\ UNCHANGED <<last, mutex, seen, orderIds, signal>>
          \/ /\ ~(r.outcome = "returned" /\ CancelsAFront(r.book))
             /\ SetBook(r.book)
             /\ last' = Ended(last.op, r.outcome)
             /\ mutex' = "free"
             /\ Goes("caller", "idle")
             /\ UNCHANGED <<seen, orderIds, signal>>
          \/ /\ r.dangling
             /\ Faults

\* CancelOrder called by MatchOrders: the thread locks ordersMutex_, which it owns
AddOrderRelocks ==
    /\ At("caller", "relock")
    /\ \E relock \in RelockOutcomes :
       \E r \in {CancelFronts(Result(Book, <<>>, "returned", FALSE), relock)} :
          \/ /\ relock = "blocked"
             /\ last' = Ended(last.op, "blocked")
             /\ Goes("caller", "blocked")
             /\ UNCHANGED <<bids, asks, orders, data, mutex, seen, orderIds, signal>>
          \/ /\ relock # "blocked"
             /\ SetBook(r.book)
             /\ last' = Ended(last.op, r.outcome)
             /\ mutex' = "free"
             /\ Goes("caller", "idle")
             /\ UNCHANGED <<seen, orderIds, signal>>
          \/ /\ r.dangling
             /\ Faults

CancelOrderRuns ==
    /\ At("caller", "idle")
    /\ mutex = "free"
    /\ \E orderId \in ThreadIds :
       \E r \in {CancelOrder(Book, orderId)} :
          \/ /\ SetBook(r.book)
             /\ last' = Ended("CancelOrder", "returned")
             /\ UNCHANGED <<seen, threads>>
          \/ /\ r.dangling
             /\ Faults

\* ModifyOrder: its first critical section, which reads the order's type
ModifyOrderReads ==
    /\ At("caller", "idle")
    /\ mutex = "free"
    /\ \E modify \in ThreadModifications :
          IF modify.orderId \in DOMAIN orders
          THEN /\ last' = [NoCall EXCEPT !.op = "ModifyOrder", !.orderId = modify.orderId,
                                         !.orderType = TypeOf(modify.orderId),
                                         !.side = modify.side, !.price = modify.price,
                                         !.quantity = modify.quantity, !.found = TRUE,
                                         !.outcome = "running"]
               /\ Goes("caller", "modifyCancel")
          ELSE /\ last' = Ended("ModifyOrder", "returned")
               /\ Goes("caller", "idle")
    /\ UNCHANGED <<bids, asks, orders, data, seen, mutex, orderIds, signal>>

\* CancelOrder(order.GetOrderId()) of ModifyOrder
ModifyOrderCancels ==
    /\ At("caller", "modifyCancel")
    /\ mutex = "free"
    /\ \E r \in {CancelOrder(Book, last.orderId)} :
          \/ /\ SetBook(r.book)
             /\ Goes("caller", "modifyAdd")
             /\ UNCHANGED <<last, seen, mutex, orderIds, signal>>
          \/ /\ r.dangling
             /\ Faults

\* return AddOrder(order.ToOrderPointer(orderType)) of ModifyOrder
ModifyOrderAdds ==
    /\ At("caller", "modifyAdd")
    /\ Admits(last,
              Order(last.orderType, last.orderId, last.side, last.price, last.quantity))

\* ~Orderbook: notify_one wakes the thread that waits on
\* shutdownConditionVariable_, if one does
Notifies ==
    /\ At("caller", "idle")
    /\ signal' = TRUE
    /\ pc' = [pc EXCEPT !["caller"] = "join",
                        !["pruner"] = IF @ = "waiting" THEN "woken" ELSE @]
    /\ UNCHANGED <<bids, asks, orders, data, last, seen, mutex, orderIds>>

\* ordersPruneThread_.join() returns when PruneGoodForDayOrders has returned
Joins ==
    /\ At("caller", "join")
    /\ At("pruner", "exited")
    /\ Goes("caller", "destroyed")
    /\ UNCHANGED <<bids, asks, orders, data, last, seen, mutex, orderIds, signal>>

\* Size() on the reader's thread
ReaderSize ==
    /\ At("reader", "idle")
    /\ ~signal
    /\ mutex = "free"
    /\ seen' = [NoInfos EXCEPT !.op = "Size", !.size = Size(Book)]
    /\ UNCHANGED <<bids, asks, orders, data, last, threads>>

\* GetOrderInfos() on the reader's thread takes no lock. While another thread
\* owns ordersMutex_ its reads race with that thread's writes, which is
\* undefined: it reads what is stored, or the process faults.
ReaderBids ==
    /\ At("reader", "idle")
    /\ ~signal
    /\ \/ /\ seen' = [NoInfos EXCEPT !.op = "GetOrderInfos running",
                                      !.bids = BidInfos(Book, DOMAIN bids)]
          /\ Goes("reader", "asks")
          /\ UNCHANGED <<bids, asks, orders, data, last, mutex, orderIds, signal>>
       \/ /\ mutex # "free"
          /\ Faults

ReaderAsks ==
    /\ At("reader", "asks")
    /\ \/ /\ seen' = [seen EXCEPT !.op = "GetOrderInfos",
                                   !.asks = AskInfos(Book, DOMAIN asks)]
          /\ Goes("reader", "idle")
          /\ UNCHANGED <<bids, asks, orders, data, last, mutex, orderIds, signal>>
       \/ /\ mutex # "free"
          /\ Faults

\* PruneGoodForDayOrders from the top of its loop into wait_for, which unlocks
\* ordersMutex_ and waits
PrunerWaits ==
    /\ At("pruner", "compute")
    /\ mutex = "free"
    /\ Goes("pruner", "waiting")
    /\ UNCHANGED <<bids, asks, orders, data, last, seen, mutex, orderIds, signal>>

\* till has passed
TimesOut ==
    /\ At("pruner", "waiting")
    /\ Goes("pruner", "timedout")
    /\ UNCHANGED <<bids, asks, orders, data, last, seen, mutex, orderIds, signal>>

\* A wait on a condition variable may end with no notification
WakesSpuriously ==
    /\ At("pruner", "waiting")
    /\ Goes("pruner", "woken")
    /\ UNCHANGED <<bids, asks, orders, data, last, seen, mutex, orderIds, signal>>

\* wait_for locks ordersMutex_ again and returns no_timeout: return
PrunerReturns ==
    /\ At("pruner", "woken")
    /\ mutex = "free"
    /\ Goes("pruner", "exited")
    /\ UNCHANGED <<bids, asks, orders, data, last, seen, mutex, orderIds, signal>>

\* wait_for locks ordersMutex_ again and returns timeout; the ids of the
\* GoodForDay orders are collected in the next critical section
PrunerSnapshots ==
    /\ At("pruner", "timedout")
    /\ mutex = "free"
    /\ orderIds' = {id \in DOMAIN orders : orders[id].orderType = "GoodForDay"}
    /\ Goes("pruner", "cancel")
    /\ UNCHANGED <<bids, asks, orders, data, last, seen, mutex, signal>>

\* for (const auto& orderId : orderIds) CancelOrderInternal(orderId);
RECURSIVE CancelOrders(_, _)
CancelOrders(r, ids) ==
    IF ids = {} THEN r
    ELSE LET orderId == CHOOSE id \in ids : TRUE
         IN  CancelOrders(Cancelled(r, CancelOrderInternal(r.book, orderId)),
                          ids \ {orderId})

\* CancelOrders(orderIds), and back to the top of the loop
PrunerCancels ==
    /\ At("pruner", "cancel")
    /\ mutex = "free"
    /\ \E r \in {CancelOrders(Result(Book, <<>>, "returned", FALSE), orderIds)} :
          \/ /\ SetBook(r.book)
             /\ orderIds' = {}
             /\ Goes("pruner", "compute")
             /\ UNCHANGED <<last, seen, mutex, signal>>
          \/ /\ r.dangling
             /\ Faults

\* AddOrder on the other thread, which holds ordersMutex_ from its first line
\* to its return: one critical section, left by the return, by the exception
\* of the lock it takes again, or never
OtherAdds ==
    /\ At("other", "idle")
    /\ mutex = "free"
    /\ \E order \in ThreadOrders :
       \E hash \in HashChoices(order.orderType), relock \in RelockChoices(order.orderType) :
       \E r \in {AddOrder(Book, order, hash, relock)} :
          /\ Relocked(r, relock)
          /\ InBounds(r.book)
          /\ \/ /\ r.outcome # "blocked"
                /\ SetBook(r.book)
                /\ UNCHANGED <<last, seen, threads>>
             \/ /\ r.outcome = "blocked"
                /\ SetBook(r.book)
                /\ mutex' = "other"
                /\ Goes("other", "blocked")
                /\ UNCHANGED <<last, seen, orderIds, signal>>
             \/ /\ r.dangling
                /\ Faults

\* CancelOrder on the other thread
OtherCancels ==
    /\ At("other", "idle")
    /\ mutex = "free"
    /\ \E orderId \in ThreadIds :
       \E r \in {CancelOrder(Book, orderId)} :
          \/ /\ SetBook(r.book)
             /\ UNCHANGED <<last, seen, threads>>
          \/ /\ r.dangling
             /\ Faults

\* The caller's thread, which modifies orders, and the other thread
CallersNext ==
    \/ ModifyOrderReads
    \/ ModifyOrderCancels
    \/ ModifyOrderAdds
    \/ AddOrderMatches
    \/ AddOrderRelocks
    \/ OtherAdds
    \/ OtherCancels

CallersSpec == Init /\ [][CallersNext]_vars

\* The caller's thread and the reader's, while ordersPruneThread_ waits
ReadersNext ==
    \/ AddOrderBegins
    \/ AddOrderMatches
    \/ AddOrderRelocks
    \/ CancelOrderRuns
    \/ ModifyOrderReads
    \/ ModifyOrderCancels
    \/ ModifyOrderAdds
    \/ ReaderSize
    \/ ReaderBids
    \/ ReaderAsks

ReadersSpec == Init /\ [][ReadersNext]_vars

\* The caller's thread, which ends by destroying the Orderbook, and
\* ordersPruneThread_
ShutdownNext ==
    \/ AddOrderBegins
    \/ AddOrderMatches
    \/ AddOrderRelocks
    \/ CancelOrderRuns
    \/ Notifies
    \/ Joins
    \/ PrunerWaits
    \/ TimesOut
    \/ WakesSpuriously
    \/ PrunerReturns
    \/ PrunerSnapshots
    \/ PrunerCancels

\* ordersPruneThread_ takes the steps it can take, a timed wait ends, and join
\* returns once the thread has ended; a wait need not end with no notification.
ShutdownFairness ==
    /\ WF_vars(PrunerWaits) /\ WF_vars(TimesOut) /\ WF_vars(PrunerReturns)
    /\ WF_vars(PrunerSnapshots) /\ WF_vars(PrunerCancels) /\ WF_vars(Joins)

ShutdownSpec == Init /\ [][ShutdownNext]_vars /\ ShutdownFairness

----------------------------------------------------------------------------
\* Reference definitions for the properties, computed from the ladders and the
\* index alone

BestBid(b) == SetMax(DOMAIN b.bids)
BestAsk(b) == SetMin(DOMAIN b.asks)
NotCrossed(b) == (DOMAIN b.bids # {} /\ DOMAIN b.asks # {}) => BestBid(b) < BestAsk(b)

\* The orders and the modifications a caller may pass
Submissions ==
    {Order(t, id, s, p, q) : t \in CallerTypes, id \in OrderIds, s \in Side,
                             p \in Prices, q \in Quantities}
AnyOrders ==
    {Order(t, id, s, p, q) : t \in OrderType, id \in OrderIds, s \in Side,
                             p \in Prices, q \in Quantities}
Modifications == [orderId : OrderIds, side : Side, price : Prices, quantity : Quantities]

\* The call that returns at once: nothing changed, no trade, nothing read
Untouched(b) == Result(b, <<>>, "returned", FALSE)

\* The ids queued in a ladder
Queued(ladder) == UNION {{ladder[p][i] : i \in 1..Len(ladder[p])} : p \in DOMAIN ladder}

\* A ladder without the order id: its queue loses it, and the level goes when
\* nothing else is queued there
Others(queue, id) == SelectSeq(queue, LAMBDA x : x # id)
Without(ladder, id) ==
    [p \in {x \in DOMAIN ladder : Others(ladder[x], id) # <<>>} |-> Others(ladder[p], id)]

RECURSIVE TradedQuantity(_)
TradedQuantity(trades) ==
    IF trades = <<>> THEN 0
    ELSE Head(trades).bidTrade.quantity + TradedQuantity(Tail(trades))

\* The remaining quantity resting against an order of this side at prices
\* its limit accepts
RECURSIVE QueueQuantity(_, _)
QueueQuantity(b, queue) ==
    IF queue = <<>> THEN 0
    ELSE b.orders[Head(queue)].remainingQuantity + QueueQuantity(b, Tail(queue))
RECURSIVE LevelsQuantity(_, _, _)
LevelsQuantity(b, ladder, levels) ==
    IF levels = {} THEN 0
    ELSE LET p == CHOOSE x \in levels : TRUE
         IN  QueueQuantity(b, ladder[p]) + LevelsQuantity(b, ladder, levels \ {p})
LadderQuantity(b, side, price) ==
    IF side = "Buy"
    THEN LevelsQuantity(b, b.asks, {p \in DOMAIN b.asks : p <= price})
    ELSE LevelsQuantity(b, b.bids, {p \in DOMAIN b.bids : p >= price})

\* The book after the heads of the two best levels trade quantity: a filled
\* head leaves its queue and the index, an emptied level leaves its ladder
HeadsTrade(b, quantity) ==
    LET bidId == Head(b.bids[BestBid(b)])
        askId == Head(b.asks[BestAsk(b)])
        reduced == [id \in DOMAIN b.orders |->
                       IF id \in {bidId, askId}
                       THEN [b.orders[id] EXCEPT !.remainingQuantity = @ - quantity]
                       ELSE b.orders[id]]
        filled == {id \in DOMAIN reduced : reduced[id].remainingQuantity = 0}
        Live(queue) == SelectSeq(queue, LAMBDA x : x \notin filled)
    IN  [bids |-> [p \in {x \in DOMAIN b.bids : Live(b.bids[x]) # <<>>} |-> Live(b.bids[p])],
         asks |-> [p \in {x \in DOMAIN b.asks : Live(b.asks[x]) # <<>>} |-> Live(b.asks[p])],
         orders |-> [id \in DOMAIN reduced \ filled |-> reduced[id]]]

\* Every trade pairs the head of the best bid level with the head of the best
\* ask level of the book as it is when the trade is made
RECURSIVE PairsHeadsOfBest(_, _)
PairsHeadsOfBest(b, trades) ==
    IF trades = <<>> THEN TRUE
    ELSE LET t == Head(trades)
         IN  /\ DOMAIN b.bids # {} /\ DOMAIN b.asks # {}
             /\ t.bidTrade.orderId = Head(b.bids[BestBid(b)])
             /\ t.askTrade.orderId = Head(b.asks[BestAsk(b)])
             /\ t.bidTrade.quantity = t.askTrade.quantity
             /\ t.bidTrade.quantity <= b.orders[t.bidTrade.orderId].remainingQuantity
             /\ t.askTrade.quantity <= b.orders[t.askTrade.orderId].remainingQuantity
             /\ PairsHeadsOfBest(HeadsTrade(b, t.bidTrade.quantity), Tail(trades))

\* The trades of one side that name an order, and what they fill of it
Names(trades, side, id) ==
    {k \in 1..Len(trades) :
        (IF side = "Buy" THEN trades[k].bidTrade ELSE trades[k].askTrade).orderId = id}
RECURSIVE FilledBy(_, _, _)
FilledBy(trades, side, id) ==
    IF trades = <<>> THEN 0
    ELSE (IF Head(trades).bidTrade.orderId = id /\ side = "Buy"
          THEN Head(trades).bidTrade.quantity
          ELSE IF Head(trades).askTrade.orderId = id /\ side = "Sell"
          THEN Head(trades).askTrade.quantity
          ELSE 0) + FilledBy(Tail(trades), side, id)

\* In every level of the ladder, an order queued behind another is filled by
\* the trades only after the one before it is filled completely
EarlierFilledFirst(b, ladder, side, trades) ==
    \A p \in DOMAIN ladder : \A i, j \in 1..Len(ladder[p]) :
        (i < j /\ Names(trades, side, ladder[p][j]) # {}) =>
            /\ FilledBy(trades, side, ladder[p][i])
                   = b.orders[ladder[p][i]].remainingQuantity
            /\ \A k \in Names(trades, side, ladder[p][i]) :
               \A n \in Names(trades, side, ladder[p][j]) : k < n

\* The number of orders queued in a ladder
RECURSIVE QueuedCount(_, _)
QueuedCount(ladder, levels) ==
    IF levels = {} THEN 0
    ELSE LET p == CHOOSE x \in levels : TRUE
         IN  Len(ladder[p]) + QueuedCount(ladder, levels \ {p})

\* infos has one record for each level of the ladder, with the sum of what
\* remains of the orders queued there
RecordsLevels(b, ladder, infos) ==
    /\ Len(infos) = Cardinality(DOMAIN ladder)
    /\ \A i \in 1..Len(infos) :
          /\ infos[i].price \in DOMAIN ladder
          /\ infos[i].quantity = QueueQuantity(b, ladder[infos[i].price])
    /\ \A i, j \in 1..Len(infos) : i # j => infos[i].price # infos[j].price

\* The level of the order after arrived is the level before it with the order
\* behind every order that was there
ArrivesLast(b, arrived, order) ==
    LET before == IF order.side = "Buy" THEN b.bids ELSE b.asks
        after == IF order.side = "Buy" THEN arrived.bids ELSE arrived.asks
    IN  after[order.price]
            = (IF order.price \in DOMAIN before THEN before[order.price] ELSE <<>>)
                  \o <<order.orderId>>

\* The queue after has the order id last, behind orders of the queue before,
\* in the order they had there
BehindTheRest(before, after, id) ==
    /\ after # <<>>
    /\ after[Len(after)] = id
    /\ \A rest \in {SubSeq(after, 1, Len(after) - 1)} :
          rest = SelectSeq(Others(before, id),
                           LAMBDA x : \E i \in 1..Len(rest) : rest[i] = x)

\* The index after a trade: its two orders have the quantity less, and an
\* order with nothing remaining has left
AfterTrade(index, t) ==
    LET reduced == [id \in DOMAIN index |->
                       IF id \in {t.bidTrade.orderId, t.askTrade.orderId}
                       THEN [index[id] EXCEPT !.remainingQuantity = @ - t.bidTrade.quantity]
                       ELSE index[id]]
    IN  [id \in {x \in DOMAIN reduced : reduced[x].remainingQuantity > 0} |-> reduced[id]]

\* Every trade, made in this order from the orders of index, has a bid half of
\* a buy order and an ask half of a sell order, each with the id and the limit
\* price of its order, both with the quantity that is the smaller of what the
\* two orders had remaining, which is positive; and the bid's limit is not
\* below the ask's
RECURSIVE TradesTakeMinimum(_, _)
TradesTakeMinimum(index, trades) ==
    IF trades = <<>> THEN TRUE
    ELSE LET t == Head(trades)
             bidId == t.bidTrade.orderId
             askId == t.askTrade.orderId
         IN  /\ bidId \in DOMAIN index /\ askId \in DOMAIN index
             /\ index[bidId].side = "Buy" /\ index[askId].side = "Sell"
             /\ t.bidTrade.price = index[bidId].price
             /\ t.askTrade.price = index[askId].price
             /\ t.bidTrade.quantity = Min(index[bidId].remainingQuantity,
                                          index[askId].remainingQuantity)
             /\ t.askTrade.quantity = t.bidTrade.quantity
             /\ t.bidTrade.quantity > 0
             /\ t.bidTrade.price >= t.askTrade.price
             /\ TradesTakeMinimum(AfterTrade(index, t), Tail(trades))

\* The index a call's matching starts from: with the order the call admitted,
\* and without the order a ModifyOrder cancelled
StartsFrom(index, call) ==
    IF call.admitted
    THEN Put(index, call.orderId,
             Order(call.orderType, call.orderId, call.side, call.price, call.quantity))
    ELSE IF call.op = "ModifyOrder" /\ call.found THEN Erase(index, call.orderId)
    ELSE index

\* From the index start to the index after, every order has lost what the
\* trades that name it on its side filled of it, and nothing else of it has
\* changed; an order that has left was filled completely, or was a FillAndKill
\* order whose remainder was cancelled; and both halves of a trade have one
\* quantity
Conserves(start, after, trades) ==
    /\ \A k \in 1..Len(trades) : trades[k].bidTrade.quantity = trades[k].askTrade.quantity
    /\ DOMAIN after \subseteq DOMAIN start
    /\ \A id \in DOMAIN start :
          \A filled \in {FilledBy(trades, start[id].side, id)} :
             /\ FilledBy(trades, IF start[id].side = "Buy" THEN "Sell" ELSE "Buy", id) = 0
             /\ IF id \in DOMAIN after
                THEN after[id] = [start[id] EXCEPT !.remainingQuantity = @ - filled]
                ELSE \/ filled = start[id].remainingQuantity
                     \/ start[id].orderType = "FillAndKill"
                        /\ filled <= start[id].remainingQuantity
    /\ \A k \in 1..Len(trades) :
          /\ trades[k].bidTrade.orderId \in DOMAIN start
          /\ trades[k].askTrade.orderId \in DOMAIN start

\* The ids of the GoodForDay orders of an index, and a ladder without the
\* orders of a set of ids
GoodForDayIds(index) == {id \in DOMAIN index : index[id].orderType = "GoodForDay"}
WithoutAll(ladder, ids) ==
    LET Kept(queue) == SelectSeq(queue, LAMBDA x : x \notin ids)
    IN  [p \in {x \in DOMAIN ladder : Kept(ladder[x]) # <<>>} |-> Kept(ladder[p])]

----------------------------------------------------------------------------
\* Properties

\* C1: after a completed AddOrder, CancelOrder or ModifyOrder the book is not
\* crossed: when both ladders are non-empty, the best bid price is strictly
\* below the best ask price. (It holds in every state a call leaves.)
C1_BookNotCrossed == NotCrossed(Book)

\* An AddOrder that traded, and left orders resting on both sides
C1_Witness ==
    /\ last.op = "AddOrder" /\ last.outcome = "returned" /\ last.trades # <<>>
    /\ DOMAIN bids # {} /\ DOMAIN asks # {}

\* C2: price-time priority. An admitted order joins its level behind the
\* orders already there; every trade of the crossing loop pairs the head of
\* the best bid level with the head of the best ask level at that moment; and
\* so, within a level, an earlier order is filled completely before a later
\* order at the same price gets any fill.
C2_PriceTimePriority ==
    Running =>
        \A order \in Submissions :
            (\E hash \in HashOrders : ~Rejects(Book, order, hash)) =>
                \A arrived \in {Insert(Book, order)} :
                    /\ ArrivesLast(Book, arrived, order)
                    /\ \A relock \in RelockOutcomes :
                       \A trades \in {MatchOrders(arrived, relock).trades} :
                          /\ PairsHeadsOfBest(arrived, trades)
                          /\ EarlierFilledFirst(arrived, arrived.bids, "Buy", trades)
                          /\ EarlierFilledFirst(arrived, arrived.asks, "Sell", trades)

\* A sell order that filled two bids resting at one price, one after the other
C2_Witness ==
    /\ last.op = "AddOrder" /\ last.side = "Sell" /\ last.outcome = "returned"
    /\ Len(last.trades) = 2
    /\ last.trades[1].bidTrade.price = last.trades[2].bidTrade.price
    /\ last.trades[1].bidTrade.orderId # last.trades[2].bidTrade.orderId

\* C3: a FillAndKill order never rests: after an AddOrder of a FillAndKill
\* order (with an id that was not resting), rejected, fully filled or partly
\* filled, its id is in no ladder and not in the index.
C3_FillAndKillNeverRests ==
    (last.op = "AddOrder" /\ last.orderType = "FillAndKill" /\ ~last.found) =>
        /\ last.orderId \notin DOMAIN orders
        /\ last.orderId \notin Queued(bids) \cup Queued(asks)

\* C4: a FillOrKill order is all or nothing: when AddOrder has admitted one
\* and returns, the quantities of the trades returned sum to the order's
\* initial quantity and the order is not resting.
C4_FillOrKillAllOrNothing ==
    (/\ last.op = "AddOrder" /\ last.orderType = "FillOrKill"
     /\ ~last.found /\ last.admitted /\ last.outcome = "returned") =>
        /\ TradedQuantity(last.trades) = last.quantity
        /\ last.orderId \notin DOMAIN orders
        /\ last.orderId \notin Queued(bids) \cup Queued(asks)

\* C5: AddOrder admits a FillOrKill order (with an id that is not resting)
\* exactly when the remaining quantities of the opposing orders resting at
\* prices its limit accepts sum to at least its quantity: CanFullyFill on the
\* level aggregates agrees with the sum computed from the ladders.
C5_AdmittedIffFillable ==
    [][(last'.op = "AddOrder" /\ last'.orderType = "FillOrKill" /\ ~last'.found) =>
           (last'.admitted
                <=> LadderQuantity(Book, last'.side, last'.price) >= last'.quantity)]_vars

\* C6: a rejected AddOrder changes nothing: for a FillAndKill order that
\* cannot cross, and for a FillOrKill order whose pre-check fails, AddOrder
\* returns no trade and leaves ladders, index and level aggregates as they were.
C6_RejectedLeavesBookUnchanged ==
    Running =>
        \A order \in Submissions : \A hash \in HashOrders, relock \in RelockOutcomes :
            (\/ order.orderType = "FillAndKill"
                /\ ~CanMatch(Book, order.side, order.price)
             \/ order.orderType = "FillOrKill"
                /\ ~CanFullyFill(Book, order.side, order.price, order.initialQuantity,
                                 hash)) =>
                AddOrder(Book, order, hash, relock) = Untouched(Book)

\* A FillOrKill order that crossed the book and was rejected by the pre-check
C6_Witness ==
    /\ last.op = "AddOrder" /\ last.orderType = "FillOrKill"
    /\ ~last.found /\ ~last.admitted /\ last.outcome = "returned"
    /\ CanMatch(Book, last.side, last.price)

\* C7: AddOrder with an id that is already in the index returns no trade and
\* leaves the book, the resting order of that id included, as it was.
C7_DuplicateIdIgnored ==
    Running =>
        \A order \in AnyOrders : \A hash \in HashOrders, relock \in RelockOutcomes :
            order.orderId \in DOMAIN orders =>
                AddOrder(Book, order, hash, relock) = Untouched(Book)

\* An AddOrder with the id of a resting order and another price
C7_Witness ==
    /\ last.op = "AddOrder" /\ last.found /\ last.outcome = "returned"
    /\ last.orderId \in DOMAIN orders
    /\ orders[last.orderId].price # last.price

\* C8: CancelOrder and ModifyOrder with an id that is not in the index change
\* nothing, and ModifyOrder returns no trade.
C8_AbsentIdIgnored ==
    Running =>
        \A orderId \in OrderIds \ DOMAIN orders :
            /\ CancelOrder(Book, orderId) = Untouched(Book)
            /\ \A modify \in Modifications :
               \A hash \in HashOrders, relock \in RelockOutcomes :
                  modify.orderId = orderId =>
                      ModifyOrder(Book, modify, hash, relock) = Untouched(Book)

\* A ModifyOrder with an absent id, at a price where it would have crossed
C8_Witness ==
    /\ last.op = "ModifyOrder" /\ ~last.found /\ last.outcome = "returned"
    /\ CanMatch(Book, last.side, last.price)

\* C9: CancelOrder with the id of a resting order removes that order, and no
\* other, from the index and from its level queue, and deletes the level when
\* the queue has become empty; every other order keeps its quantity and its
\* place relative to the others.
C9_CancelRemovesExactlyThatOrder ==
    [][(last'.op = "CancelOrder" /\ last'.found) =>
           /\ DOMAIN orders' = DOMAIN orders \ {last'.orderId}
           /\ \A id \in DOMAIN orders' : orders'[id] = orders[id]
           /\ bids' = Without(bids, last'.orderId)
           /\ asks' = Without(asks, last'.orderId)]_vars

\* C10: cancelling is idempotent: CancelOrder called twice in a row with one
\* id leaves the book as calling it once does (the second call finds the id
\* absent, changes nothing and reads nothing).
C10_CancelIdempotent ==
    Running =>
        \A orderId \in OrderIds :
            \A once \in {CancelOrder(Book, orderId)} :
                CancelOrder(once.book, orderId) = Untouched(once.book)

\* A CancelOrder that removed a resting order and left another resting
C10_Witness ==
    /\ last.op = "CancelOrder" /\ last.found /\ last.outcome = "returned"
    /\ last.orderId \notin DOMAIN orders
    /\ DOMAIN orders # {}

\* C11: ModifyOrder is CancelOrder then AddOrder: with one caller, ModifyOrder
\* of a resting GoodTillCancel order leaves the book, returns the trades and
\* ends as CancelOrder of the id followed by AddOrder of a new GoodTillCancel
\* order with that id and the side, price and quantity asked for.
C11_ModifyIsCancelThenAdd ==
    Running =>
        \A modify \in Modifications :
        \A hash \in HashChoices("GoodTillCancel"),
           relock \in RelockChoices("GoodTillCancel") :
            (/\ modify.orderId \in DOMAIN orders
             /\ orders[modify.orderId].orderType = "GoodTillCancel") =>
                \A cancelled \in {CancelOrder(Book, modify.orderId)} :
                \A added \in {AddOrder(cancelled.book,
                                       Order("GoodTillCancel", modify.orderId, modify.side,
                                             modify.price, modify.quantity),
                                       hash, relock)} :
                \A modified \in {ModifyOrder(Book, modify, hash, relock)} :
                    /\ modified.book = added.book
                    /\ modified.trades = added.trades
                    /\ modified.outcome = added.outcome
                    /\ modified.dangling = (cancelled.dangling \/ added.dangling)

\* A ModifyOrder of a resting GoodTillCancel order that moved it to the other
\* side, where it traded
C11_Witness ==
    /\ last.op = "ModifyOrder" /\ last.found /\ last.orderType = "GoodTillCancel"
    /\ last.outcome = "returned" /\ last.trades # <<>>

\* C12: ModifyOrder loses time priority: when ModifyOrder of a resting order
\* returns without a trade and the order rests, it is the last of the queue
\* of its new level, behind the orders that were resting there, which keep
\* their order (so that they are filled before it); also when side, price
\* and quantity are the ones it had.
C12_ModifyLosesTimePriority ==
    Running =>
        \A modify \in Modifications :
        \A hash \in HashChoices(TypeOf(modify.orderId)),
           relock \in RelockChoices(TypeOf(modify.orderId)) :
            modify.orderId \in DOMAIN orders =>
                \A modified \in {ModifyOrder(Book, modify, hash, relock)} :
                    (/\ modified.outcome = "returned" /\ modified.trades = <<>>
                     /\ modify.orderId \in DOMAIN modified.book.orders) =>
                        \A before \in {IF modify.side = "Buy" THEN bids ELSE asks} :
                        \A after \in {IF modify.side = "Buy" THEN modified.book.bids
                                       ELSE modified.book.asks} :
                            /\ modify.price \in DOMAIN after
                            /\ BehindTheRest(IF modify.price \in DOMAIN before
                                             THEN before[modify.price] ELSE <<>>,
                                             after[modify.price], modify.orderId)

\* A ModifyOrder that did not trade and left the order behind another one
C12_Witness ==
    /\ last.op = "ModifyOrder" /\ last.found /\ last.outcome = "returned"
    /\ last.trades = <<>> /\ last.orderId \in DOMAIN orders
    /\ \E ladder \in {IF last.side = "Buy" THEN bids ELSE asks} :
          /\ last.price \in DOMAIN ladder
          /\ Len(ladder[last.price]) = 2
          /\ ladder[last.price][2] = last.orderId

\* C13: every trade returned by AddOrder or ModifyOrder has a bid half and an
\* ask half, each with the id and the limit price of its own order, both with
\* the quantity q that is the minimum of what the two orders had remaining
\* just before the fill; the bid's price is not below the ask's, and q > 0
\* (the quantities submitted are > 0). The orders are those of the index when
\* the call begins, with the order the call submits.
C13_TradeHalves ==
    [][(last'.op \in {"AddOrder", "ModifyOrder"} /\ last'.outcome = "returned") =>
           TradesTakeMinimum(Put(orders, last'.orderId,
                                 Order(last'.orderType, last'.orderId, last'.side,
                                       last'.price, last'.quantity)),
                             last'.trades)]_vars

\* A call that returned two trades, the first between a bid and an ask of
\* different prices
C13_Witness ==
    /\ last.op \in {"AddOrder", "ModifyOrder"} /\ last.outcome = "returned"
    /\ Len(last.trades) = 2
    /\ last.trades[1].bidTrade.price > last.trades[1].askTrade.price

\* C14: AddOrder of a Market order trades against the opposing levels whatever
\* their prices and whatever price the order carries: when the opposing side
\* holds in total at least the order's quantity, the quantities of the trades
\* returned sum to the order's initial quantity.
C14_MarketTakesAnyPrice ==
    [][(/\ last'.op = "AddOrder" /\ last'.orderType = "Market" /\ ~last'.found
        /\ last'.outcome = "returned"
        /\ (IF last'.side = "Buy" THEN LevelsQuantity(Book, asks, DOMAIN asks)
            ELSE LevelsQuantity(Book, bids, DOMAIN bids)) >= last'.quantity) =>
           TradedQuantity(last'.trades) = last'.quantity]_vars

\* C15: a Market order never rests: after an AddOrder of a Market order (with
\* an id that was not resting), also when the opposing side is empty or holds
\* less than its quantity, its id is not in the index and in no level.
C15_MarketNeverRests ==
    (last.op = "AddOrder" /\ last.orderType = "Market" /\ ~last.found) =>
        /\ last.orderId \notin DOMAIN orders
        /\ last.orderId \notin Queued(bids) \cup Queued(asks)

\* C16: GetOrderInfos returns, for each side, one record for each level that
\* has resting orders, best first (bids by descending price, asks by ascending
\* price), with the sum of the remaining quantities of the orders resting at
\* that price; and Size returns the number of resting orders.
C16_SnapshotOfLadders ==
    /\ seen.op = "GetOrderInfos" =>
           /\ RecordsLevels(Book, bids, seen.bids)
           /\ RecordsLevels(Book, asks, seen.asks)
           /\ \A i, j \in 1..Len(seen.bids) : i < j => seen.bids[i].price > seen.bids[j].price
           /\ \A i, j \in 1..Len(seen.asks) : i < j => seen.asks[i].price < seen.asks[j].price
    /\ seen.op = "Size" =>
           seen.size = QueuedCount(bids, DOMAIN bids) + QueuedCount(asks, DOMAIN asks)

\* A GetOrderInfos that returned two bid levels of different quantities
C16_Witness ==
    /\ seen.op = "GetOrderInfos"
    /\ Len(seen.bids) = 2
    /\ seen.bids[1].quantity # seen.bids[2].quantity

\* C17: a GetOrderInfos that runs while another thread adds, cancels or
\* modifies orders returns a consistent snapshot: when it has both bids and
\* asks, its best bid is below its best ask, so it shows no order that an
\* AddOrder has inserted and not yet matched.
C17_ReadsAreSnapshots ==
    (seen.op = "GetOrderInfos" /\ seen.bids # <<>> /\ seen.asks # <<>>)
        => seen.bids[1].price < seen.asks[1].price

\* C18: no thread locks ordersMutex_ while it owns it, and no call is left
\* waiting for a lock its own thread holds, also when AddOrder has to cancel
\* the remainder of a partly filled FillAndKill order.
C18_NeverLocksItsOwnMutex ==
    \A t \in Threads : pc[t] \in {"relock", "blocked"} => mutex # t

\* C19: once the destructor has notified shutdownConditionVariable_, the
\* pruning thread returns and the destructor's join returns, wherever in its
\* loop the pruning thread was (unless the process has faulted).
C19_ShutdownCompletes ==
    signal ~> (At("caller", "destroyed") \/ At("caller", "fault"))

\* C20: after the destructor has notified shutdownConditionVariable_, the
\* pruning thread cancels no order.
C20_NoPruningAfterSignal ==
    [][(signal /\ At("pruner", "cancel") /\ pc'["pruner"] = "compute")
           => DOMAIN orders' = DOMAIN orders]_vars

\* C23: after every completed AddOrder, CancelOrder or ModifyOrder, every
\* price with a level in a ladder has an entry in data_ whose count is the
\* number of orders queued in the level and whose quantity is the sum of what
\* remains of them.
C23_AggregatesMatchLadders ==
    last.outcome = "returned" =>
        \A ladder \in {bids, asks} : \A p \in DOMAIN ladder :
            /\ p \in DOMAIN data
            /\ data[p].count = Len(ladder[p])
            /\ data[p].quantity = QueueQuantity(Book, ladder[p])

\* C24: after every call the index and the ladders agree: every id of the
\* index is the id of its order, which is queued exactly once, in the level of
\* its price on its side and nowhere else; every queued id is in the index;
\* and the size of the index is the number of orders queued in both ladders.
C24_IndexMatchesLadders ==
    /\ \A id \in DOMAIN orders :
          LET own == IF orders[id].side = "Buy" THEN bids ELSE asks
              other == IF orders[id].side = "Buy" THEN asks ELSE bids
          IN  /\ orders[id].orderId = id
              /\ orders[id].price \in DOMAIN own
              /\ Cardinality({i \in 1..Len(own[orders[id].price]) :
                                  own[orders[id].price][i] = id}) = 1
              /\ \A p \in DOMAIN own \ {orders[id].price} :
                     \A i \in 1..Len(own[p]) : own[p][i] # id
              /\ id \notin Queued(other)
    /\ Queued(bids) \cup Queued(asks) \subseteq DOMAIN orders
    /\ Size(Book) = QueuedCount(bids, DOMAIN bids) + QueuedCount(asks, DOMAIN asks)

\* A call that traded, filled an order completely and left another resting
C24_Witness ==
    /\ last.outcome = "returned" /\ last.trades # <<>>
    /\ \E t \in {last.trades[1]} :
          {t.bidTrade.orderId, t.askTrade.orderId} \ DOMAIN orders # {}
    /\ DOMAIN orders # {}

\* C25: after every call every price of the bid ladder and of the ask ladder
\* has a queue that is not empty.
C25_NoEmptyLevel ==
    /\ \A p \in DOMAIN bids : bids[p] # <<>>
    /\ \A p \in DOMAIN asks : asks[p] # <<>>

\* An AddOrder whose trades drained the level it matched, and a CancelOrder
\* that took the last order of a ladder
C25_Witness ==
    \/ /\ last.op = "AddOrder" /\ last.outcome = "returned" /\ last.trades # <<>>
       /\ last.trades[1].bidTrade.price \notin DOMAIN bids
       /\ last.trades[1].askTrade.price \notin DOMAIN asks
       /\ DOMAIN orders # {}
    \/ /\ last.op = "CancelOrder" /\ last.found /\ last.outcome = "returned"
       /\ DOMAIN orders # {}
       /\ DOMAIN bids = {} \/ DOMAIN asks = {}

\* C26: after every call every order of the index, and so every queued order,
\* has a remaining quantity above 0 and not above its initial quantity.
C26_NoFilledOrderRests ==
    \A id \in DOMAIN orders :
        /\ orders[id].remainingQuantity > 0
        /\ orders[id].remainingQuantity <= orders[id].initialQuantity

\* A call that traded and left an order resting that is filled in part
C26_Witness ==
    /\ last.outcome = "returned" /\ last.trades # <<>>
    /\ \E id \in DOMAIN orders :
          orders[id].remainingQuantity < orders[id].initialQuantity

\* C27: no call ends with the logic_error of Order::Fill: MatchOrders fills an
\* order with no more than what remains of it.
C27_FillNeverThrows == last.outcome # "logic_error"

\* An AddOrder whose order traded less than its quantity, which was more than
\* remained of the order it met
C27_Witness ==
    /\ last.op = "AddOrder" /\ last.outcome = "returned" /\ Len(last.trades) = 1
    /\ last.trades[1].bidTrade.quantity < last.quantity

\* C28: no entry of data_ wraps: every entry has a count of at least 1 and a
\* quantity that was never taken below 0 (modulo 2^32).
C28_AggregatesNeverWrap ==
    \A p \in DOMAIN data : data[p].count >= 1 /\ data[p].quantity >= 0

\* C30: quantity is conserved. In every AddOrder and ModifyOrder that returns,
\* each order is filled by exactly the quantity of the returned trades that name
\* it, so that over any sequence of calls its initial quantity less its
\* remaining quantity is the sum of the trades that named it; and the bid half
\* and the ask half of every trade have the same quantity.
C30_QuantityConserved ==
    [][(last'.op \in {"AddOrder", "ModifyOrder"} /\ last'.outcome = "returned")
           => Conserves(StartsFrom(orders, last'), orders', last'.trades)]_vars

\* An AddOrder whose order traded once and rests with part of it filled
C30_Witness ==
    /\ last.op = "AddOrder" /\ last.outcome = "returned" /\ Len(last.trades) = 1
    /\ last.orderId \in DOMAIN orders
    /\ orders[last.orderId].remainingQuantity < orders[last.orderId].initialQuantity

\* C21: a pruning pass that began when the wait timed out, with no call of the
\* caller between its snapshot and its cancel (the ids it holds are those of
\* the GoodForDay orders resting when it cancels), leaves no GoodForDay order
\* in the index or the ladders and every order of another type resting as it
\* was.
C21_SessionEndPruning ==
    [][(PrunerCancels /\ orderIds = GoodForDayIds(orders))
           => /\ GoodForDayIds(orders') = {}
              /\ orders' = [id \in DOMAIN orders \ orderIds |-> orders[id]]
              /\ bids' = WithoutAll(bids, orderIds)
              /\ asks' = WithoutAll(asks, orderIds)]_vars

\* C29: a pruning pass removes GoodForDay orders only, also when the caller
\* has cancelled and added orders between the snapshot of the pass and its
\* cancel: every order the cancel removes is a GoodForDay order.
C29_PrunesGoodForDayOnly ==
    [][(At("pruner", "cancel") /\ pc'["pruner"] = "compute")
           => \A id \in DOMAIN orders \ DOMAIN orders' :
                 orders[id].orderType = "GoodForDay"]_vars

\* C22: a ModifyOrder that found its order admits the new order, whatever
\* other threads do between its read of the type, its cancel and its add: when
\* its AddOrder has run its early returns, the index holds under the id an
\* order of the type read (here GoodTillCancel or GoodForDay, which AddOrder
\* rejects for no reason but its id) with the side, price and quantity asked.
C22_ModifyAdmitsItsOrder ==
    [][(/\ At("caller", "modifyAdd")
        /\ pc'["caller"] \in {"matching", "idle"}
        /\ last.orderType \in {"GoodTillCancel", "GoodForDay"})
           => /\ last.orderId \in DOMAIN orders'
              /\ orders'[last.orderId]
                     = Order(last.orderType, last.orderId, last.side, last.price,
                             last.quantity)]_vars

====
